---- MODULE Spec2Model ----
(***************************************************************************)
(* Model of the storage-triggered archive pipeline extract_zip             *)
(* (functions/main.py).  Object keys, file names and relative paths are    *)
(* sequences of one-character strings, so that split, startswith,          *)
(* lower/endswith, os.path.splitext, prefix listing and prefix slicing are *)
(* computed the way the code computes them.                                *)
(***************************************************************************)
EXTENDS Integers, Sequences, FiniteSets, TLC

(* ------------------------------ bounds --------------------------------- *)
\* number of trigger events delivered in one behaviour; one handler instance
\* runs per event, and the platform may run them all at the same time
MaxEvents == 2
\* largest number of continuation tokens one rewrite returns
MaxChunks == 1

Runs == 1..MaxEvents

(* --------------------------- string literals --------------------------- *)
sUserSlash == <<"u","s","e","r","/">>
sUploads == <<"u","p","l","o","a","d","s">>
sExtracted == <<"e","x","t","r","a","c","t","e","d">>
sChats == <<"c","h","a","t","s">>
sDotZip == <<".","z","i","p">>
sChatTxt == <<"_","c","h","a","t",".","t","x","t">>
sExtractedMid == <<"/","e","x","t","r","a","c","t","e","d","/">>
sChatsMid == <<"/","c","h","a","t","s","/">>
sSlash == <<"/">>

(* ----------------------- str methods used by main.py ------------------- *)
LowerChar(c) ==
  CASE c = "Z" -> "z" [] c = "I" -> "i" [] c = "P" -> "p"
    [] c = "A" -> "a" [] c = "U" -> "u" [] OTHER -> c

Lower(s) == [i \in 1..Len(s) |-> LowerChar(s[i])]

StartsWith(s, p) == Len(s) >= Len(p) /\ SubSeq(s, 1, Len(p)) = p

EndsWith(s, p) == Len(s) >= Len(p) /\ SubSeq(s, Len(s) - Len(p) + 1, Len(s)) = p

\* index of the first "/" of s, 0 when there is none
FindSlash(s) ==
  LET at == {i \in 1..Len(s) : s[i] = "/"}
  IN IF at = {} THEN 0 ELSE CHOOSE i \in at : \A j \in at : i <= j

\* str.split("/")
RECURSIVE Split(_)
Split(s) ==
  LET i == FindSlash(s)
  IN IF i = 0 THEN <<s>>
     ELSE <<SubSeq(s, 1, i - 1)>> \o Split(SubSeq(s, i + 1, Len(s)))

\* index of the last character c of s, 0 when there is none
RFind(s, c) ==
  LET at == {i \in 1..Len(s) : s[i] = c}
  IN IF at = {} THEN 0 ELSE CHOOSE i \in at : \A j \in at : j <= i

\* os.path.splitext(p)[0]: the extension starts at the last dot of the last
\* path component, unless only dots precede it in that component
SplitextRoot(p) ==
  LET sepIndex == RFind(p, "/")
      dotIndex == RFind(p, ".")
  IN IF dotIndex > sepIndex /\ \E i \in (sepIndex+1)..(dotIndex-1) : p[i] # "."
       THEN SubSeq(p, 1, dotIndex - 1)
       ELSE p

Last(seq) == seq[Len(seq)]

(* ------------------------------ routing -------------------------------- *)
\* line 45 without the test of parts[2]
EligibleAnyFolder(file_path) ==
  LET parts == Split(file_path)
  IN ~( \/ ~StartsWith(file_path, sUserSlash)
        \/ Len(parts) < 4
        \/ ~EndsWith(Lower(file_path), sDotZip) )

\* line 45: the key is processed only when this holds
Eligible(file_path) ==
  LET parts == Split(file_path)
  IN ~( \/ ~StartsWith(file_path, sUserSlash)
        \/ Len(parts) < 4
        \/ parts[3] # sUploads
        \/ ~EndsWith(Lower(file_path), sDotZip) )

\* line 61 testing for the uploads folder as well
LoopGuardOnUploads(file_path) ==
  LET parts == Split(file_path)
  IN parts[3] = sExtracted \/ parts[3] = sChats \/ parts[3] = sUploads

\* line 61: the second skip test, evaluated only on keys that passed line 45
LoopGuard(file_path) ==
  LET parts == Split(file_path)
  IN parts[3] = sExtracted \/ parts[3] = sChats

UserId(file_path) == Split(file_path)[2]
ZipFilename(file_path) == Last(Split(file_path))
ZipNameBase(file_path) == SplitextRoot(ZipFilename(file_path))

\* lines 109, 122, 128, 129: the prefixes the run publishes and mirrors under
ExtractedPrefix(user_id, zip_name_base) ==
  sUserSlash \o user_id \o sExtractedMid \o zip_name_base \o sSlash
\* line 129 without the folder of the archive: one chats/ folder per user
ChatsPrefixNoBase(user_id, zip_name_base) ==
  sUserSlash \o user_id \o sChatsMid

ChatsPrefix(user_id, zip_name_base) ==
  sUserSlash \o user_id \o sChatsMid \o zip_name_base \o sSlash

(* ------------------------- objects of the model ------------------------ *)
kUploadA == <<"u","s","e","r","/","u","1","/","u","p","l","o","a","d","s","/","a",".","z","i","p">>
kUploadAUpper == <<"u","s","e","r","/","u","1","/","u","p","l","o","a","d","s","/","a",".","Z","I","P">>
kUploadB == <<"u","s","e","r","/","u","2","/","u","p","l","o","a","d","s","/","b",".","z","i","p">>
kOther == <<"u","s","e","r","/","u","1","/","o","t","h","e","r","/","a",".","z","i","p">>
kShort == <<"u","s","e","r","/","a",".","z","i","p">>
kUsers == <<"u","s","e","r","s","/","u","1","/","u","p","l","o","a","d","s","/","a",".","z","i","p">>
kNoZip == <<"u","s","e","r","/","u","1","/","u","p","l","o","a","d","s","/","a",".","t","x","t">>

pNested == <<"m","/","p",".","t","x","t">>
pPlain == <<"a",".","t","x","t">>
pInnerZip == <<"m","/","a",".","z","i","p">>

\* byte contents: "c1", "c2" are not archives; "zChat", "zPlain", "zInner" are
IsZip(content) == content \in {"zChat", "zPlain", "zInner"}

\* zipfile.ZipFile(...).extractall: the (relative path -> content) entries
ZipEntries(content) ==
  CASE content = "zChat"  -> (sChatTxt :> "c1") @@ (pNested :> "c2")
    [] content = "zPlain" -> (pPlain :> "c1")
    [] content = "zInner" -> (sChatTxt :> "c2") @@ (pInnerZip :> "c1")
    [] OTHER -> <<>>

\* the buckets the handler is deployed on: the objects users have finalized
\* (one archive; one object at a key that is not an upload; two archives of
\* the same user and base name; two archives of different users)
Buckets ==
  { (kUploadA :> c) : c \in {"zChat", "zPlain", "zInner", "c1"} }
    \cup { (k :> "zPlain") : k \in {kOther, kShort, kUsers, kNoZip} }
    \cup { (kUploadA :> "zPlain") @@ (kUploadAUpper :> "zInner"),
           (kUploadA :> "zInner") @@ (kUploadB :> "zInner") }

(* -------------------------------- state -------------------------------- *)
VARIABLES
  storage,   \* the bucket: object key -> content
  cache,     \* chatFoldersCache documents: records [uid, base, updated_at]
  now,       \* the document store's clock (firestore.SERVER_TIMESTAMP)
  run        \* run[r]: the locals and position of handler instance r, and a
             \* record of what it did: archive (the content it downloaded),
             \* walked and failed (files visited / whose upload raised),
             \* written (object keys it put), cache_writes

vars == <<storage, cache, now, run>>

NoFiles == [p \in {} |-> "c1"]

IdleRun ==
  [ pc |-> "Idle", reason |-> "none",
    file_path |-> <<>>, user_id |-> <<>>, zip_filename |-> <<>>, zip_name_base |-> <<>>,
    temp_dir |-> FALSE, files |-> NoFiles, archive |-> "none", walked |-> {},
    upload_count |-> 0, failed |-> {},
    marker |-> "unchecked", blobs_to_copy |-> <<>>, copy_count |-> 0, token |-> 0,
    written |-> {}, cache_writes |-> 0 ]

Init ==
  /\ storage \in Buckets
  /\ cache = {}
  /\ now = 0
  /\ run = [r \in Runs |-> IdleRun]

Ended(r) == run[r].pc \in {"Idle", "Done", "Aborted"}

\* blob.upload_from_filename / a completed rewrite: create or overwrite
Put(st, key, content) == (key :> content) @@ st

\* tempfile.mkdtemp in place of the with block: nothing is deleted
ReleaseNothing(rec) == rec

\* leaving the `with tempfile.TemporaryDirectory()` block (line 69)
Release(rec) == [rec EXCEPT !.temp_dir = FALSE, !.files = NoFiles]

Abort(rec, why) == [Release(rec) EXCEPT !.pc = "Aborted", !.reason = why]

(* ------------------------------ extract_zip ---------------------------- *)
\* lines 44-63 with the suffix test alone: every .zip object is processed
RoutedBySuffix(k) ==
  IF ~EndsWith(Lower(k), sDotZip) \/ Len(Split(k)) < 4
    THEN [IdleRun EXCEPT !.pc = "Aborted", !.reason = "Skip", !.file_path = k]
    ELSE [IdleRun EXCEPT !.pc = "Downloading", !.file_path = k,
                         !.user_id = UserId(k),
                         !.zip_filename = ZipFilename(k),
                         !.zip_name_base = ZipNameBase(k),
                         !.temp_dir = TRUE]

\* lines 36-70 on the event of object k: routing, identifiers, creation of
\* the temporary directory
Routed(k) ==
  IF ~Eligible(k) \/ LoopGuard(k)
    THEN [IdleRun EXCEPT !.pc = "Aborted", !.reason = "Skip", !.file_path = k]
    ELSE [IdleRun EXCEPT !.pc = "Downloading", !.file_path = k,
                         !.user_id = UserId(k),
                         !.zip_filename = ZipFilename(k),
                         !.zip_name_base = ZipNameBase(k),
                         !.temp_dir = TRUE]

\* the platform delivers the finalize event of an object of the bucket (at
\* least once, so of any object present, the handler's own output included)
\* and instance r, the next one, handles it
Route(r, k) ==
  /\ run[r].pc = "Idle"
  /\ \A q \in 1..(r-1) : run[q].pc # "Idle"
  /\ run' = [run EXCEPT ![r] = Routed(k)]
  /\ UNCHANGED <<storage, cache, now>>

\* the same, the events being delivered one after the other: no instance is
\* running when the next one starts
RouteSeq(r, k) ==
  /\ \A q \in Runs : Ended(q)
  /\ Route(r, k)

\* lines 77-79: the download raises
DownloadFail(r) ==
  /\ run[r].pc = "Downloading"
  /\ run' = [run EXCEPT ![r] = Abort(run[r], "DownloadError")]
  /\ UNCHANGED <<storage, cache, now>>

\* lines 73-76: the archive is downloaded into the temporary directory
DownloadOk(r) ==
  /\ run[r].pc = "Downloading"
  /\ run[r].file_path \in DOMAIN storage
  /\ run' = [run EXCEPT ![r].pc = "Extracting",
                        ![r].archive = storage[run[r].file_path],
                        ![r].files = (run[r].zip_filename :> storage[run[r].file_path])]
  /\ UNCHANGED <<storage, cache, now>>

\* lines 100-101 without the test of line 102
ToUploadAll(rec) == DOMAIN rec.files \ {rec.zip_filename}

\* lines 100-103: the files the walk uploads, all but those named like the
\* archive
ToUpload(rec) == {f \in DOMAIN rec.files : Last(Split(f)) # rec.zip_filename}

\* line 119 is reached when both loops of lines 100-101 are exhausted
AfterWalk(rec) ==
  IF ToUpload(rec) \subseteq rec.walked THEN [rec EXCEPT !.pc = "CheckingMarker"] ELSE rec

\* lines 82-86: extractall writes the entries over the temporary directory
ExtractOk(r) ==
  /\ run[r].pc = "Extracting"
  /\ IsZip(run[r].archive)
  /\ run' = [run EXCEPT ![r] =
               AfterWalk([run[r] EXCEPT !.pc = "Publishing",
                                        !.files = ZipEntries(run[r].archive) @@ @])]
  /\ UNCHANGED <<storage, cache, now>>

\* lines 87-92 without the return: publishing goes on after BadZipFile
ExtractBadZipGoesOn(r) ==
  /\ run[r].pc = "Extracting"
  /\ ~IsZip(run[r].archive)
  /\ run' = [run EXCEPT ![r] = AfterWalk([run[r] EXCEPT !.pc = "Publishing"])]
  /\ UNCHANGED <<storage, cache, now>>

\* lines 87-92: zipfile.BadZipFile
ExtractBadZip(r) ==
  /\ run[r].pc = "Extracting"
  /\ ~IsZip(run[r].archive)
  /\ run' = [run EXCEPT ![r] = Abort(run[r], "CorruptArchiveError")]
  /\ UNCHANGED <<storage, cache, now>>

\* lines 93-95: any other exception while extracting
ExtractFail(r) ==
  /\ run[r].pc = "Extracting"
  /\ IsZip(run[r].archive)
  /\ run' = [run EXCEPT ![r] = Abort(run[r], "ExtractionError")]
  /\ UNCHANGED <<storage, cache, now>>

\* os.walk(temp_dir) is top-down: the files of a directory are yielded before
\* the files of its subdirectories; the order inside a directory is arbitrary
DirOf(p) == SubSeq(p, 1, RFind(p, "/"))

WalkNext(rec) ==
  LET rest == ToUpload(rec) \ rec.walked
  IN { f \in rest : \A g \in rest :
         ~(DirOf(g) # DirOf(f) /\ StartsWith(DirOf(f), DirOf(g))) }

\* line 109 with the file name in place of relative_path
DestinationBlobNameFlat(rec, relative_path) ==
  ExtractedPrefix(rec.user_id, rec.zip_name_base) \o Last(Split(relative_path))

\* line 109
DestinationBlobName(rec, relative_path) ==
  ExtractedPrefix(rec.user_id, rec.zip_name_base) \o relative_path

\* lines 105-115: the upload of one file succeeds
UploadOk(r) ==
  /\ run[r].pc = "Publishing"
  /\ \E f \in WalkNext(run[r]) :
       /\ storage' = Put(storage, DestinationBlobName(run[r], f), run[r].files[f])
       /\ run' = [run EXCEPT ![r] =
                    AfterWalk([run[r] EXCEPT !.walked = @ \cup {f},
                                             !.upload_count = @ + 1,
                                             !.written = @ \cup {DestinationBlobName(run[r], f)}])]
  /\ UNCHANGED <<cache, now>>

\* lines 112-117 without the try: the exception of an upload propagates
UploadFailAborts(r) ==
  /\ run[r].pc = "Publishing"
  /\ \E f \in WalkNext(run[r]) :
       run' = [run EXCEPT ![r] = Abort([run[r] EXCEPT !.walked = @ \cup {f},
                                                       !.failed = @ \cup {f}], "UploadError")]
  /\ UNCHANGED <<storage, cache, now>>

\* lines 116-117: the upload of one file raises, which is logged
UploadFail(r) ==
  /\ run[r].pc = "Publishing"
  /\ \E f \in WalkNext(run[r]) :
       /\ run' = [run EXCEPT ![r] =
                    AfterWalk([run[r] EXCEPT !.walked = @ \cup {f}, !.failed = @ \cup {f}])]
  /\ UNCHANGED <<storage, cache, now>>

\* line 122
ExtractedChatFilePath(rec) ==
  ExtractedPrefix(rec.user_id, rec.zip_name_base) \o sChatTxt

\* line 125 without the call to exists(): the copy is always attempted
MarkerPresentUnchecked(r) ==
  /\ run[r].pc = "CheckingMarker"
  /\ run' = [run EXCEPT ![r].pc = "Listing", ![r].marker = "present"]
  /\ UNCHANGED <<storage, cache, now>>

\* line 125, true branch
MarkerPresent(r) ==
  /\ run[r].pc = "CheckingMarker"
  /\ ExtractedChatFilePath(run[r]) \in DOMAIN storage
  /\ run' = [run EXCEPT ![r].pc = "Listing", ![r].marker = "present"]
  /\ UNCHANGED <<storage, cache, now>>

\* line 125 with the else branch falling through to the copy
MarkerAbsentCopies(r) ==
  /\ run[r].pc = "CheckingMarker"
  /\ ExtractedChatFilePath(run[r]) \notin DOMAIN storage
  /\ run' = [run EXCEPT ![r].pc = "Listing", ![r].marker = "absent"]
  /\ UNCHANGED <<storage, cache, now>>

\* lines 125, 160-161: no marker, the with block and the handler end
MarkerAbsent(r) ==
  /\ run[r].pc = "CheckingMarker"
  /\ ExtractedChatFilePath(run[r]) \notin DOMAIN storage
  /\ run' = [run EXCEPT ![r] = [Release(run[r]) EXCEPT !.pc = "Done", !.marker = "absent"]]
  /\ UNCHANGED <<storage, cache, now>>

\* line 125 inside a try whose handler logs and goes on to the copy
MarkerErrorGoesOn(r) ==
  /\ run[r].pc = "CheckingMarker"
  /\ run' = [run EXCEPT ![r].pc = "Listing", ![r].marker = "error"]
  /\ UNCHANGED <<storage, cache, now>>

\* line 125: exists() raises; nothing catches it
MarkerError(r) ==
  /\ run[r].pc = "CheckingMarker"
  /\ run' = [run EXCEPT ![r] = [Abort(run[r], "BackendUnavailableError") EXCEPT !.marker = "error"]]
  /\ UNCHANGED <<storage, cache, now>>

\* the bucket lists object names in lexicographic (code point) order
Ascii == <<".", "/", "1", "2", "A", "I", "P", "U", "Z", "_", "a", "c", "d", "e", "h",
           "i", "l", "m", "o", "p", "r", "s", "t", "u", "x", "z", "b">>
Code(c) == CHOOSE i \in 1..Len(Ascii) : Ascii[i] = c

NameLess(a, b) ==
  \E i \in 1..(Len(a) + 1) :
    /\ i <= Len(b)
    /\ \A j \in 1..(i-1) : a[j] = b[j]
    /\ (i = Len(a) + 1 \/ Code(a[i]) < Code(b[i]))

RECURSIVE Sorted(_)
Sorted(S) ==
  IF S = {} THEN <<>>
  ELSE LET m == CHOOSE x \in S : \A y \in S : x = y \/ NameLess(x, y)
       IN <<m>> \o Sorted(S \ {m})

\* line 132 with max_results=1
ListBlobsPrefixFirst(st, prefix) ==
  SubSeq(Sorted({k \in DOMAIN st : StartsWith(k, prefix)}), 1, 1)

\* line 132: list(storage_client.list_blobs(prefix=source_prefix))
ListBlobsPrefix(st, prefix) == Sorted({k \in DOMAIN st : StartsWith(k, prefix)})

\* lines 132-159 with the cache write of lines 155-159 after the if/else
\* instead of inside the else branch
ListBlobsThenCache(r) ==
  /\ run[r].pc = "Listing"
  /\ LET blobs == ListBlobsPrefix(storage, ExtractedPrefix(run[r].user_id, run[r].zip_name_base))
     IN IF blobs = <<>>
          THEN run' = [run EXCEPT ![r].pc = "CachingCompletion"]
          ELSE run' = [run EXCEPT ![r].pc = "Copying", ![r].blobs_to_copy = blobs]
  /\ UNCHANGED <<storage, cache, now>>

\* lines 132-136: an empty listing is a warning and the handler ends (the
\* cache write of lines 155-159 belongs to the else branch); otherwise the
\* copy loop starts
ListBlobs(r) ==
  /\ run[r].pc = "Listing"
  /\ LET blobs == ListBlobsPrefix(storage, ExtractedPrefix(run[r].user_id, run[r].zip_name_base))
     IN IF blobs = <<>>
          THEN run' = [run EXCEPT ![r] = [Release(run[r]) EXCEPT !.pc = "Done"]]
          ELSE run' = [run EXCEPT ![r].pc = "Copying", ![r].blobs_to_copy = blobs]
  /\ UNCHANGED <<storage, cache, now>>

\* line 132: list_blobs raises; nothing catches it
ListError(r) ==
  /\ run[r].pc = "Listing"
  /\ run' = [run EXCEPT ![r] = Abort(run[r], "BackendUnavailableError")]
  /\ UNCHANGED <<storage, cache, now>>

\* lines 138-139 with the file name in place of the path relative to the prefix
DestinationBlobPathFlat(rec, name) ==
  ChatsPrefix(rec.user_id, rec.zip_name_base) \o Last(Split(name))

\* lines 138-139
DestinationBlobPath(rec, name) ==
  ChatsPrefix(rec.user_id, rec.zip_name_base)
    \o SubSeq(name, Len(ExtractedPrefix(rec.user_id, rec.zip_name_base)) + 1, Len(name))

\* the blob the copy loop of line 136 is at
CurrentBlob(rec) == rec.blobs_to_copy[rec.copy_count + 1]

\* the cache write of lines 155-159 indented into the loop of line 136
AfterCopyFirst(rec) ==
  IF rec.copy_count >= 1 THEN [rec EXCEPT !.pc = "CachingCompletion"] ELSE rec

\* line 152 is reached when the loop of line 136 is exhausted
AfterCopy(rec) ==
  IF rec.copy_count = Len(rec.blobs_to_copy)
    THEN [rec EXCEPT !.pc = "CachingCompletion"] ELSE rec

\* lines 138-150 with source_prefix in place of destination_prefix at line
\* 139: every object is rewritten onto itself
RewriteDoneInPlace(r) ==
  /\ run[r].pc = "Copying"
  /\ CurrentBlob(run[r]) \in DOMAIN storage
  /\ LET dst == CurrentBlob(run[r]) IN
       /\ storage' = Put(storage, dst, storage[CurrentBlob(run[r])])
       /\ run' = [run EXCEPT ![r] = AfterCopy([run[r] EXCEPT !.copy_count = @ + 1,
                                                             !.token = 0,
                                                             !.written = @ \cup {dst}])]
  /\ UNCHANGED <<cache, now>>

\* lines 144-150: a rewrite call returns no token; the destination object
\* now exists with the content of the source
RewriteDone(r) ==
  /\ run[r].pc = "Copying"
  /\ CurrentBlob(run[r]) \in DOMAIN storage
  /\ LET dst == DestinationBlobPath(run[r], CurrentBlob(run[r])) IN
       /\ storage' = Put(storage, dst, storage[CurrentBlob(run[r])])
       /\ run' = [run EXCEPT ![r] = AfterCopy([run[r] EXCEPT !.copy_count = @ + 1,
                                                             !.token = 0,
                                                             !.written = @ \cup {dst}])]
  /\ UNCHANGED <<cache, now>>

\* lines 144-150 without the while loop: an object whose rewrite returned a
\* token is counted and the loop moves on
RewriteMoreCounts(r) ==
  /\ run[r].pc = "Copying"
  /\ CurrentBlob(run[r]) \in DOMAIN storage
  /\ run[r].token < MaxChunks
  /\ run' = [run EXCEPT ![r] = AfterCopy([run[r] EXCEPT !.copy_count = @ + 1])]
  /\ UNCHANGED <<storage, cache, now>>

\* lines 144-147: a rewrite call returns a continuation token
RewriteMore(r) ==
  /\ run[r].pc = "Copying"
  /\ CurrentBlob(run[r]) \in DOMAIN storage
  /\ run[r].token < MaxChunks
  /\ run' = [run EXCEPT ![r].token = @ + 1]
  /\ UNCHANGED <<storage, cache, now>>

\* lines 144-147 with a compensating delete of what the run has written
RewriteFailRollsBack(r) ==
  /\ run[r].pc = "Copying"
  /\ storage' = [k \in DOMAIN storage \ run[r].written |-> storage[k]]
  /\ run' = [run EXCEPT ![r] = Abort(run[r], "CopyError")]
  /\ UNCHANGED <<cache, now>>

\* lines 144-147: a rewrite call raises; nothing catches it
RewriteFail(r) ==
  /\ run[r].pc = "Copying"
  /\ run' = [run EXCEPT ![r] = Abort(run[r], "CopyError")]
  /\ UNCHANGED <<storage, cache, now>>

\* line 158 with collection.add in place of document(zip_name_base).set
SetDocAdd(docs, uid, base, t) ==
  docs \cup {[uid |-> uid, base |-> base, updated_at |-> t]}

\* line 158: doc_ref.set replaces the document users/{uid}/chatFoldersCache/{base}
SetDoc(docs, uid, base, t) ==
  {d \in docs : ~(d.uid = uid /\ d.base = base)}
    \cup {[uid |-> uid, base |-> base, updated_at |-> t]}

\* lines 155-159: the cache document is written, the handler ends
CacheWrite(r) ==
  /\ run[r].pc = "CachingCompletion"
  /\ now' = now + 1
  /\ cache' = SetDoc(cache, run[r].user_id, run[r].zip_name_base, now')
  /\ run' = [run EXCEPT ![r] = [Release(run[r]) EXCEPT !.pc = "Done", !.cache_writes = @ + 1]]
  /\ UNCHANGED storage

\* lines 156-158: the document store raises; nothing catches it
CacheFail(r) ==
  /\ run[r].pc = "CachingCompletion"
  /\ run' = [run EXCEPT ![r] = Abort(run[r], "CacheError")]
  /\ UNCHANGED <<storage, cache, now>>

(* ---------------------------- specifications --------------------------- *)
Step(r) ==
  \/ DownloadOk(r) \/ DownloadFail(r)
  \/ ExtractOk(r) \/ ExtractBadZip(r) \/ ExtractFail(r)
  \/ UploadOk(r) \/ UploadFail(r)
  \/ MarkerPresent(r) \/ MarkerAbsent(r) \/ MarkerError(r)
  \/ ListBlobs(r) \/ ListError(r)
  \/ RewriteDone(r) \/ RewriteMore(r) \/ RewriteFail(r)
  \/ CacheWrite(r) \/ CacheFail(r)

Next ==
  \/ \E r \in Runs : \E k \in DOMAIN storage : Route(r, k)
  \/ \E r \in Runs : Step(r)

Spec == Init /\ [][Next]_vars

\* the runs of the bucket's events one at a time, no two overlapping
NextSeq ==
  \/ \E r \in Runs : \E k \in DOMAIN storage : RouteSeq(r, k)
  \/ \E r \in Runs : Step(r)

SpecSeq == Init /\ [][NextSeq]_vars

\* the runs one at a time, each rewrite loop calling the bucket again until
\* the bucket answers without a token: the loop of lines 146-147 runs on as
\* long as the handler does, and the bucket completes every rewrite it keeps
\* being asked for
SpecSeqFair == SpecSeq /\ \A r \in Runs : WF_vars(RewriteDone(r))

\* an object under the extracted prefix of a run is deleted by something
\* other than the handler between the run's marker check (line 125) and its
\* listing (line 132), which is what the warning of line 134 expects
Delete(r, k) ==
  /\ run[r].pc = "Listing"
  /\ k \in DOMAIN storage
  /\ StartsWith(k, ExtractedPrefix(run[r].user_id, run[r].zip_name_base))
  /\ storage' = [j \in DOMAIN storage \ {k} |-> storage[j]]
  /\ UNCHANGED <<cache, now, run>>

\* the runs one at a time, in a bucket whose extracted objects may be deleted
NextDel ==
  \/ \E r \in Runs : \E k \in DOMAIN storage : RouteSeq(r, k)
  \/ \E r \in Runs : Step(r)
  \/ \E r \in Runs : \E k \in DOMAIN storage : Delete(r, k)

SpecDel == Init /\ [][NextDel]_vars

\* the steps of a run when no call to the bucket or the document store raises
StepNoFault(r) ==
  \/ DownloadOk(r)
  \/ ExtractOk(r) \/ ExtractBadZip(r)
  \/ UploadOk(r)
  \/ MarkerPresent(r) \/ MarkerAbsent(r)
  \/ ListBlobs(r)
  \/ RewriteDone(r) \/ RewriteMore(r)
  \/ CacheWrite(r)

\* the re-delivery of an event while a run is in progress: every run but the
\* first starts while another one is running
RouteDup(r, k) ==
  /\ r = 1 \/ \E q \in Runs : ~Ended(q)
  /\ Route(r, k)

NextDup ==
  \/ \E r \in Runs : \E k \in DOMAIN storage : RouteDup(r, k)
  \/ \E r \in Runs : StepNoFault(r)

SpecDup == Init /\ [][NextDup]_vars

\* the steps of a run when only uploads and copies may raise, every rewrite
\* call either completing the copy or raising
StepCopyFault(r) ==
  \/ DownloadOk(r)
  \/ ExtractOk(r) \/ ExtractBadZip(r)
  \/ UploadOk(r) \/ UploadFail(r)
  \/ MarkerPresent(r) \/ MarkerAbsent(r)
  \/ ListBlobs(r)
  \/ RewriteDone(r) \/ RewriteFail(r)
  \/ CacheWrite(r)

\* the runs in any order and interleaving, only uploads and copies raising
NextFaulty ==
  \/ \E r \in Runs : \E k \in DOMAIN storage : Route(r, k)
  \/ \E r \in Runs : StepCopyFault(r)

SpecFaulty == Init /\ [][NextFaulty]_vars

(* ================================ claims =============================== *)
\* what a run has done so far, read off its record
NoStageRan(rec) ==
  /\ ~rec.temp_dir /\ rec.files = NoFiles /\ rec.archive = "none"
  /\ rec.walked = {} /\ rec.upload_count = 0 /\ rec.failed = {}
  /\ rec.marker = "unchecked" /\ rec.blobs_to_copy = <<>> /\ rec.copy_count = 0
  /\ rec.written = {} /\ rec.cache_writes = 0

\* the shape user/{uid}/uploads/{name}.zip, as the claim words it
HasUploadShape(key) ==
  LET segment == Split(key)
      n == Len(key)
  IN /\ StartsWith(key, sUserSlash)
     /\ Len(segment) >= 4
     /\ segment[3] = sUploads
     /\ n >= 4 /\ key[n-3] = "." /\ key[n-2] \in {"z", "Z"}
     /\ key[n-1] \in {"i", "I"} /\ key[n] \in {"p", "P"}

\* the destination prefixes of section 6, for user uid and base name base
ExtractedDir(uid, base) ==
  <<"u","s","e","r","/">> \o uid \o <<"/","e","x","t","r","a","c","t","e","d","/">> \o base \o <<"/">>
ChatsDir(uid, base) ==
  <<"u","s","e","r","/">> \o uid \o <<"/","c","h","a","t","s","/">> \o base \o <<"/">>

\* the path of key relative to the prefix dir
RelativeTo(dir, key) == SubSeq(key, Len(dir) + 1, Len(key))

\* the keys of bucket st under the prefix dir
Under(st, dir) == {k \in DOMAIN st : StartsWith(k, dir)}

\* every object under extracted/{base}/ has a copy with the same content at
\* the same relative path under chats/{base}/
Mirrored(st, uid, base) ==
  \A k \in Under(st, ExtractedDir(uid, base)) :
    LET c == ChatsDir(uid, base) \o RelativeTo(ExtractedDir(uid, base), k)
    IN c \in DOMAIN st /\ st[c] = st[k]

\* the cache records of (uid, base)
Records(docs, uid, base) == {d \in docs : d.uid = uid /\ d.base = base}

\* C1: a run whose key does not have the shape user/{uid}/uploads/{name}.zip
\* ends in Skip and no later stage runs for it: no scratch directory, no
\* download, no upload, no marker check, no listing, no copy, no cache write.
C1_SkipRunsNoStage ==
  \A r \in Runs :
    (run[r].pc # "Idle" /\ ~HasUploadShape(run[r].file_path)) =>
      /\ run[r].pc = "Aborted" /\ run[r].reason = "Skip"
      /\ NoStageRan(run[r])

\* a run has been skipped for a key with the right prefix, segment count and
\* suffix, whose third segment is not 'uploads'
C1_Witness ==
  \E r \in Runs :
    /\ run[r].pc = "Aborted" /\ run[r].reason = "Skip"
    /\ run[r].file_path = kOther
    /\ ~HasUploadShape(run[r].file_path)

\* C2 as stated: whenever a run that found the marker present ends, however
\* it ends, every object under extracted/{base}/ has its copy under
\* chats/{base}/ and exactly one cache record exists for (uid, base).
C2_Original ==
  [][ \A r \in Runs :
        ( /\ ~Ended(r)
          /\ run'[r].pc \in {"Done", "Aborted"}
          /\ run'[r].marker = "present" ) =>
        ( /\ Mirrored(storage', run'[r].user_id, run'[r].zip_name_base)
          /\ Cardinality(Records(cache', run'[r].user_id, run'[r].zip_name_base)) = 1 )
    ]_vars

\* C2 (amended): when a run that found the marker present ends after its
\* listing, every copy and its cache write completed without error, and no
\* other run overlaps it, every object under extracted/{base}/ has a copy with
\* the same content at the same relative path under chats/{base}/ and exactly
\* one cache record exists for (uid, base).
C2_MirroredWhenCompleted ==
  [][ \A r \in Runs :
        ( /\ ~Ended(r)
          /\ run'[r].pc = "Done"
          /\ run'[r].marker = "present"
          /\ run'[r].cache_writes = 1 ) =>
        ( /\ Mirrored(storage', run'[r].user_id, run'[r].zip_name_base)
          /\ Cardinality(Records(cache', run'[r].user_id, run'[r].zip_name_base)) = 1 )
    ]_vars

\* a run found the marker, copied at least two objects, one of them in a
\* subdirectory, wrote the cache record and ended
C2_Witness ==
  \E r \in Runs :
    /\ run[r].pc = "Done" /\ run[r].marker = "present" /\ run[r].cache_writes = 1
    /\ run[r].copy_count >= 2
    /\ \E k \in run[r].written :
         StartsWith(k, ChatsDir(run[r].user_id, run[r].zip_name_base) \o <<"m", "/">>)

\* C3: a run whose marker check finds _chat.txt absent is, from that step
\* on, Done: it lists nothing, copies nothing, puts no object under
\* chats/{base}/ and writes no cache record.
C3_MarkerAbsentNoMirror ==
  \A r \in Runs :
    run[r].marker = "absent" =>
      /\ run[r].pc = "Done" /\ run[r].reason = "none"
      /\ run[r].blobs_to_copy = <<>> /\ run[r].copy_count = 0
      /\ run[r].cache_writes = 0
      /\ \A k \in run[r].written :
           /\ ~StartsWith(k, ChatsDir(run[r].user_id, run[r].zip_name_base))
           /\ StartsWith(k, ExtractedDir(run[r].user_id, run[r].zip_name_base))

\* a run that published an object found no marker and ended
C3_Witness ==
  \E r \in Runs :
    /\ run[r].marker = "absent" /\ run[r].pc = "Done"
    /\ run[r].upload_count >= 1

\* the archive entries a run is to publish: all but those whose file name is
\* the file name of the archive
Publishable(rec) ==
  LET archive_name == Last(Split(rec.file_path))
  IN {p \in DOMAIN ZipEntries(rec.archive) : Last(Split(p)) # archive_name}

\* where the entry with relative path p is to be published
PublishedKey(rec, p) == ExtractedDir(rec.user_id, rec.zip_name_base) \o p

\* where an enumerated object is to be mirrored
MirroredKey(rec, name) ==
  ChatsDir(rec.user_id, rec.zip_name_base)
    \o RelativeTo(ExtractedDir(rec.user_id, rec.zip_name_base), name)

\* C4: a run is about to write, or has written, the cache record only when
\* its listing was not empty and every enumerated object has been copied by
\* it; a run one of whose copies failed writes no cache record; and every
\* cache record was written by such a run.
C4_CacheOnlyAfterAllCopies ==
  /\ \A r \in Runs :
       /\ (run[r].pc = "CachingCompletion" \/ run[r].cache_writes > 0) =>
            /\ run[r].blobs_to_copy # <<>>
            /\ run[r].copy_count = Len(run[r].blobs_to_copy)
            /\ \A i \in 1..Len(run[r].blobs_to_copy) :
                 MirroredKey(run[r], run[r].blobs_to_copy[i]) \in run[r].written
            /\ run[r].reason # "CopyError"
       /\ run[r].reason = "CopyError" => run[r].cache_writes = 0
       /\ run[r].cache_writes \in {0, 1}
  /\ \A d \in cache : \E r \in Runs :
       run[r].cache_writes = 1 /\ run[r].user_id = d.uid /\ run[r].zip_name_base = d.base

\* a run has written the cache record after copying two objects
C4_Witness ==
  \E r \in Runs :
    /\ run[r].cache_writes = 1 /\ Len(run[r].blobs_to_copy) >= 2
    /\ cache # {}

\* C5: an upload that raises does not end the upload loop. Once a run has
\* left publishing, every publishable file has been attempted, every one
\* whose upload did not raise is in the bucket, and upload_count is the
\* number of uploads that succeeded; while it publishes, upload_count is the
\* number of successes so far.
C5_UploadFailureIsolated ==
  \A r \in Runs :
    /\ run[r].pc = "Publishing" =>
         run[r].upload_count = Cardinality(run[r].walked \ run[r].failed)
    /\ ( /\ run[r].pc \notin {"Idle", "Downloading", "Extracting", "Publishing"}
         /\ run[r].reason \notin {"Skip", "DownloadError", "CorruptArchiveError", "ExtractionError"} ) =>
         LET publishable == Publishable(run[r]) IN
           /\ run[r].walked = publishable
           /\ run[r].failed \subseteq run[r].walked
           /\ run[r].upload_count = Cardinality(publishable \ run[r].failed)
           /\ \A p \in publishable \ run[r].failed :
                /\ PublishedKey(run[r], p) \in run[r].written
                /\ PublishedKey(run[r], p) \in DOMAIN storage

\* one upload of a run raised and another one succeeded after it
C5_Witness ==
  \E r \in Runs :
    /\ run[r].pc = "CheckingMarker"
    /\ sChatTxt \in run[r].failed
    /\ run[r].upload_count = 1
    /\ PublishedKey(run[r], pNested) \in DOMAIN storage

\* the run ended where the download or the decoding failed
FailedEarly(rec) ==
  rec.pc = "Aborted" /\ rec.reason \in {"DownloadError", "CorruptArchiveError", "ExtractionError"}

\* C6: a run whose download fails (it has left Downloading without an
\* archive), whose archive is not a zip, or whose extraction raises, ends
\* there having published nothing, checked no marker, copied nothing and
\* written no cache record; when no other run got further, the bucket holds
\* no object under extracted/ or chats/ and the cache is empty.
C6_EarlyFailureNoEffect ==
  /\ \A r \in Runs :
       ( /\ run[r].pc \notin {"Idle", "Downloading", "Extracting"}
         /\ run[r].reason # "Skip"
         /\ (run[r].archive = "none" \/ ~IsZip(run[r].archive) \/ run[r].reason = "ExtractionError") ) =>
         /\ FailedEarly(run[r])
         /\ run[r].walked = {} /\ run[r].upload_count = 0 /\ run[r].marker = "unchecked"
         /\ run[r].blobs_to_copy = <<>> /\ run[r].copy_count = 0
         /\ run[r].written = {} /\ run[r].cache_writes = 0
  /\ ( /\ \E r \in Runs : FailedEarly(run[r])
       /\ \A r \in Runs : run[r].pc = "Idle" \/ run[r].reason = "Skip" \/ FailedEarly(run[r]) ) =>
       /\ cache = {}
       /\ \A k \in DOMAIN storage : Len(Split(k)) < 3 \/ Split(k)[3] \notin {sExtracted, sChats}

\* a run ended on a corrupt archive and another on a failed download
C6_Witness ==
  \E r, q \in Runs :
    /\ run[r].pc = "Aborted" /\ run[r].reason = "CorruptArchiveError"
    /\ run[q].pc = "Aborted" /\ run[q].reason = "DownloadError"

\* C9: a run that has ended holds no scratch storage, by whichever path it
\* ended; a run in any stage from the download to the cache write holds its
\* temporary directory.
C9_ScratchReleased ==
  \A r \in Runs :
    /\ Ended(r) => (~run[r].temp_dir /\ run[r].files = NoFiles)
    /\ run[r].pc \in {"Downloading", "Extracting", "Publishing", "CheckingMarker",
                      "Listing", "Copying", "CachingCompletion"} => run[r].temp_dir

\* a run that extracted its archive and published from its temporary
\* directory ended on a copy error, and another one ended in full success
C9_Witness ==
  \E r, q \in Runs :
    /\ run[r].pc = "Aborted" /\ run[r].reason = "CopyError" /\ run[r].upload_count >= 1
    /\ run[q].pc = "Done" /\ run[q].cache_writes = 1

\* C10 as stated: when a run has finished publishing a valid archive, every
\* entry but those named like the archive is in the bucket at
\* user/{uid}/extracted/{base}/{p} with the content of the entry.
C10_Original ==
  \A r \in Runs :
    run[r].pc = "CheckingMarker" =>
      \A p \in Publishable(run[r]) :
        /\ PublishedKey(run[r], p) \in DOMAIN storage
        /\ storage[PublishedKey(run[r], p)] = ZipEntries(run[r].archive)[p]

\* C10 (amended): when a run has finished publishing a valid archive, every
\* entry but those named like the archive, and but those whose upload
\* raised, is in the bucket at user/{uid}/extracted/{base}/{p} with the
\* content of the entry, and the run has put no other object: nothing for an
\* entry named like the archive, nothing at another key.
C10_PublishedAtDestination ==
  \A r \in Runs :
    run[r].pc = "CheckingMarker" =>
      LET published == Publishable(run[r]) \ run[r].failed IN
        /\ \A p \in published :
             /\ PublishedKey(run[r], p) \in DOMAIN storage
             /\ storage[PublishedKey(run[r], p)] = ZipEntries(run[r].archive)[p]
        /\ run[r].written = {PublishedKey(run[r], p) : p \in published}

\* a run has published an archive one entry of which is named like the
\* archive: the marker is in the bucket, the entry is not
C10_Witness ==
  \E r \in Runs :
    /\ run[r].pc = "CheckingMarker" /\ run[r].failed = {}
    /\ pInnerZip \in DOMAIN ZipEntries(run[r].archive) \ Publishable(run[r])
    /\ PublishedKey(run[r], sChatTxt) \in DOMAIN storage
    /\ PublishedKey(run[r], pInnerZip) \notin DOMAIN storage

\* the objects of bucket st under extracted/{base}/ and chats/{base}/, with
\* their contents
ObjectsOf(st, uid, base) ==
  {<<k, st[k]>> : k \in Under(st, ExtractedDir(uid, base)) \cup Under(st, ChatsDir(uid, base))}

\* the run went through every stage it entered without a failure
RanClean(rec) == rec.pc = "Done" /\ rec.failed = {} /\ IsZip(rec.archive)

\* C7: when a run has gone through the pipeline without a failure and the
\* next run, alone, processes the same key with the same archive content, no
\* step of the second run changes the objects under extracted/{base}/ and
\* chats/{base}/ (keys and contents), and the cache keeps as many records for
\* (uid, base) as the first run left: one when the marker was found.
C7_SecondRunChangesNothing ==
  [][ \A r \in Runs : \A q \in Runs :
        ( /\ q = r + 1
          /\ RanClean(run[r])
          /\ run'[q] # run[q]
          /\ run[q].file_path = run[r].file_path
          /\ run'[q].archive \in {"none", run[r].archive} ) =>
        ( /\ ObjectsOf(storage', run[r].user_id, run[r].zip_name_base)
               = ObjectsOf(storage, run[r].user_id, run[r].zip_name_base)
          /\ Cardinality(Records(cache', run[r].user_id, run[r].zip_name_base))
               = Cardinality(Records(cache, run[r].user_id, run[r].zip_name_base))
          /\ Cardinality(Records(cache', run[r].user_id, run[r].zip_name_base))
               = run[r].cache_writes )
    ]_vars

\* two runs, one after the other, have published, mirrored and cached the
\* same archive at the same key
C7_Witness ==
  /\ RanClean(run[1]) /\ RanClean(run[2])
  /\ run[1].file_path = run[2].file_path /\ run[1].archive = run[2].archive
  /\ run[1].cache_writes = 1 /\ run[2].cache_writes = 1
  /\ run[2].upload_count = 2 /\ run[2].copy_count = 2
  /\ now = 2

\* what one run of the event of key file_path with archive content leaves
\* under extracted/ and chats/ of an otherwise empty bucket: the entries not
\* named like the archive, and their mirror when _chat.txt is among them
AfterSingleRun(rec) ==
  {<<PublishedKey(rec, p), ZipEntries(rec.archive)[p]>> : p \in Publishable(rec)}
    \cup IF sChatTxt \in Publishable(rec)
           THEN {<<ChatsDir(rec.user_id, rec.zip_name_base) \o p, ZipEntries(rec.archive)[p]>> :
                   p \in Publishable(rec)}
           ELSE {}

\* the objects of the bucket the pipeline writes: those under the folders
\* extracted and chats
Outputs(st) ==
  {<<k, st[k]>> : k \in {x \in DOMAIN st : Len(Split(x)) >= 3 /\ Split(x)[3] \in {sExtracted, sChats}}}

\* every event delivered so far was for the same key, and its run is Done
\* without a failed upload
AllDuplicatesDone ==
  /\ run[1].pc = "Done" /\ run[2].pc = "Done"
  /\ \A r \in Runs : run[r].pc \in {"Idle", "Done"}
  /\ \A r \in Runs : run[r].pc = "Done" =>
       /\ run[r].file_path = run[1].file_path /\ run[r].archive = run[1].archive
       /\ run[r].failed = {}

\* C8: when the event of one archive is delivered again while a run for it
\* is in progress, and no call fails, then once all the runs are Done the
\* objects under extracted/ and chats/ are those a single run leaves, and
\* the cache holds the one record (uid, base) when the archive has the
\* marker, none otherwise.
C8_DuplicateRunsConverge ==
  AllDuplicatesDone =>
    /\ Outputs(storage) = AfterSingleRun(run[1])
    /\ {<<d.uid, d.base>> : d \in cache}
         = IF sChatTxt \in Publishable(run[1])
             THEN {<<run[1].user_id, run[1].zip_name_base>>} ELSE {}
    /\ Cardinality(cache) <= 1

\* two overlapping runs of the same event have both mirrored the archive
\* and written the cache record
C8_Witness ==
  /\ AllDuplicatesDone
  /\ run[1].cache_writes = 1 /\ run[2].cache_writes = 1
  /\ run[1].copy_count = 2 /\ run[2].copy_count = 2

\* the archive a run was triggered by has no _chat.txt entry
NoMarkerEntry(rec) ==
  IsZip(rec.archive) /\ sChatTxt \notin DOMAIN ZipEntries(rec.archive)

\* the run put no object under chats/{base}/, wrote no cache record, and
\* published entries of its archive only, under extracted/{base}/
PublishedOnly(rec) ==
  /\ rec.cache_writes = 0
  /\ \A k \in rec.written :
       LET dir == ExtractedDir(rec.user_id, rec.zip_name_base)
       IN /\ StartsWith(k, dir)
          /\ RelativeTo(dir, k) \in DOMAIN ZipEntries(rec.archive)

\* C11 as stated: after any sequence of runs, a run triggered by an archive
\* with no _chat.txt entry puts no object under chats/{base}/ and writes no
\* cache record; it only publishes its entries under extracted/{base}/.
C11_Original ==
  \A r \in Runs : NoMarkerEntry(run[r]) => PublishedOnly(run[r])

\* C11: a run triggered by an archive with no _chat.txt entry, while the
\* bucket holds no object user/{uid}/extracted/{base}/_chat.txt, has put no
\* object under chats/{base}/ and written no cache record; it has only
\* published its entries under extracted/{base}/.
C11_NoMarkerNoMirror ==
  \A r \in Runs :
    ( /\ NoMarkerEntry(run[r])
      /\ PublishedKey(run[r], sChatTxt) \notin DOMAIN storage ) =>
        PublishedOnly(run[r])

\* a run of an archive without _chat.txt published an entry and ended, the
\* bucket holding no marker for its base name
C11_Witness ==
  \E r \in Runs :
    /\ NoMarkerEntry(run[r])
    /\ PublishedKey(run[r], sChatTxt) \notin DOMAIN storage
    /\ run[r].pc = "Done" /\ run[r].written # {}

\* the run has extracted its archive and walked the extracted files
Processed(rec) ==
  /\ IsZip(rec.archive)
  /\ rec.pc \in {"Done", "Aborted"}
  /\ rec.reason \notin {"CorruptArchiveError", "ExtractionError"}

\* runs r and q were triggered for the same user and base name
SameFolder(r, q) ==
  run[r].user_id = run[q].user_id /\ run[r].zip_name_base = run[q].zip_name_base

\* the keys of bucket st of the shape user/{uid}/extracted/...
ExtractedObjects(st) ==
  {k \in DOMAIN st :
     LET segment == Split(k)
     IN StartsWith(k, sUserSlash) /\ Len(segment) >= 4 /\ segment[3] = sExtracted}

\* C12 as stated: after any sequence of runs, every object under
\* extracted/{base}/ has a relative path that existed in the archive the
\* pipeline processed for (uid, base), that is in the archive of the latest
\* run for (uid, base).
C12_Original ==
  \A r \in Runs :
    ( /\ Processed(run[r])
      /\ \A q \in Runs : (q > r /\ SameFolder(r, q)) => ~IsZip(run[q].archive) ) =>
        LET dir == ExtractedDir(run[r].user_id, run[r].zip_name_base)
        IN \A k \in Under(storage, dir) :
             RelativeTo(dir, k) \in DOMAIN ZipEntries(run[r].archive)

\* C12: in every reachable state, every object under extracted/{base}/ has a
\* relative path that existed in an archive that some run extracted for
\* (uid, base), not necessarily the latest one.
C12_ExtractedFromSomeArchive ==
  \A k \in ExtractedObjects(storage) :
    \E r \in Runs :
      LET dir == ExtractedDir(run[r].user_id, run[r].zip_name_base)
      IN /\ IsZip(run[r].archive)
         /\ StartsWith(k, dir)
         /\ RelativeTo(dir, k) \in DOMAIN ZipEntries(run[r].archive)

\* two runs for the same user and base name processed archives of different
\* contents, and an object published by the first has a path the archive of
\* the second does not have
C12_Witness ==
  \E r, q \in Runs :
    /\ r < q /\ SameFolder(r, q)
    /\ Processed(run[r]) /\ Processed(run[q])
    /\ run[r].archive # run[q].archive
    /\ \E k \in Under(storage, ExtractedDir(run[q].user_id, run[q].zip_name_base)) :
         /\ RelativeTo(ExtractedDir(run[q].user_id, run[q].zip_name_base), k)
              \notin DOMAIN ZipEntries(run[q].archive)
         /\ k \in run[r].written

\* C13: a run one of whose copies raised is Aborted with no cache write; of
\* the enumerated objects exactly those before the failing one have been
\* copied under chats/{base}/, none after it; and every object the run
\* published or copied before the failure is still in the bucket.
C13_CopyFailureAborts ==
  \A r \in Runs :
    run[r].reason = "CopyError" =>
      LET blobs == run[r].blobs_to_copy IN
        /\ run[r].pc = "Aborted"
        /\ run[r].cache_writes = 0
        /\ run[r].copy_count < Len(blobs)
        /\ \A i \in 1..Len(blobs) :
             (MirroredKey(run[r], blobs[i]) \in run[r].written) <=> (i <= run[r].copy_count)
        /\ run[r].written \subseteq DOMAIN storage

\* the second copy of a run raised after the run published two objects and
\* copied one, all three still in the bucket
C13_Witness ==
  \E r \in Runs :
    /\ run[r].reason = "CopyError"
    /\ run[r].copy_count = 1 /\ run[r].upload_count = 2
    /\ Cardinality(run[r].written) = 3
    /\ run[r].written \subseteq DOMAIN storage

\* C14: the first rewrite call for an enumerated object carries no token;
\* while a call returns a token the same object is called again, with that
\* token, and nothing is counted or visible at its destination; an object
\* is counted, and the loop moves on, at the call that returns no token,
\* when its copy is in the bucket. As long as the bucket ends up answering
\* every object without a token, and unless a call raises, the loop ends
\* with copy_count the number of enumerated objects.
C14_CopyLoopTerminates ==
  /\ [][ \A r \in Runs :
           /\ (run'[r].pc = "Copying" /\ run[r].pc # "Copying") => run'[r].token = 0
           /\ run'[r].copy_count # run[r].copy_count =>
                /\ run[r].pc = "Copying"
                /\ run'[r].copy_count = run[r].copy_count + 1
                /\ run'[r].token = 0
                /\ LET dst == MirroredKey(run[r], CurrentBlob(run[r]))
                   IN dst \in DOMAIN storage' /\ storage'[dst] = storage[CurrentBlob(run[r])]
           /\ (run[r].pc = "Copying" /\ run'[r].token # run[r].token /\ run'[r].token # 0) =>
                /\ run'[r].token = run[r].token + 1
                /\ run'[r].pc = "Copying"
                /\ run'[r].copy_count = run[r].copy_count
                /\ storage' = storage ]_vars
  /\ \A r \in Runs :
       (run[r].pc = "Copying") ~>
          \/ run[r].reason = "CopyError"
          \/ /\ run[r].pc = "CachingCompletion"
             /\ run[r].copy_count = Len(run[r].blobs_to_copy)

\* a run has copied its first object and holds the token a rewrite call
\* returned for the second
C14_Witness ==
  \E r \in Runs :
    /\ run[r].pc = "Copying" /\ run[r].copy_count = 1
    /\ run[r].token >= 1 /\ Len(run[r].blobs_to_copy) >= 2

\* the run found the marker, listed the extracted prefix and got no object
ListedNothing(rec) ==
  rec.marker = "present" /\ rec.blobs_to_copy = <<>> /\ rec.pc \notin {"Listing", "Aborted"}

\* C15 as stated: a run that found the marker and whose listing is empty
\* copies nothing, raises no error, and goes on to write the cache record
\* for (uid, base) before it is Done.
C15_Original ==
  \A r \in Runs :
    (ListedNothing(run[r]) /\ run[r].pc = "Done") =>
      /\ run[r].copy_count = 0 /\ run[r].reason = "none"
      /\ run[r].cache_writes = 1
      /\ Records(cache, run[r].user_id, run[r].zip_name_base) # {}

\* C15: a run that found the marker and whose listing is empty copies
\* nothing, raises no error and is Done at once: it never is at the cache
\* write and writes no cache record.
C15_EmptyListingNoCache ==
  \A r \in Runs :
    ListedNothing(run[r]) =>
      /\ run[r].pc = "Done" /\ run[r].reason = "none"
      /\ run[r].copy_count = 0
      /\ run[r].cache_writes = 0
      /\ ~run[r].temp_dir
      /\ \A k \in run[r].written :
           ~StartsWith(k, ChatsDir(run[r].user_id, run[r].zip_name_base))

\* a run published its objects and found the marker, the objects were
\* deleted before it listed the prefix, and it ended
C15_Witness ==
  \E r \in Runs :
    /\ ListedNothing(run[r]) /\ run[r].pc = "Done"
    /\ run[r].upload_count >= 1
    /\ Under(storage, ExtractedDir(run[r].user_id, run[r].zip_name_base)) = {}

\* C16: the step at which the marker check of a run raises changes neither
\* the bucket nor the cache, and from then on the run is Aborted: it has
\* listed nothing, copied nothing under chats/{base}/ and written no cache
\* record, and the objects it published under extracted/{base}/ are still in
\* the bucket.
C16_MarkerCheckFailureAborts ==
  /\ [][ \A r \in Runs :
           (run'[r].marker = "error" /\ run[r].marker # "error") =>
             /\ run[r].pc = "CheckingMarker"
             /\ storage' = storage /\ cache' = cache ]_vars
  /\ [](\A r \in Runs :
          run[r].marker = "error" =>
            /\ run[r].pc = "Aborted" /\ run[r].reason = "BackendUnavailableError"
            /\ run[r].blobs_to_copy = <<>> /\ run[r].copy_count = 0
            /\ run[r].cache_writes = 0
            /\ ~run[r].temp_dir
            /\ \A k \in run[r].written :
                 /\ StartsWith(k, ExtractedDir(run[r].user_id, run[r].zip_name_base))
                 /\ k \in DOMAIN storage)

\* the marker check of a run that published the marker itself raised
C16_Witness ==
  \E r \in Runs :
    /\ run[r].marker = "error" /\ run[r].pc = "Aborted"
    /\ PublishedKey(run[r], sChatTxt) \in run[r].written
    /\ PublishedKey(run[r], sChatTxt) \in DOMAIN storage

\* the keys the runs have written so far
WrittenKeys == UNION {run[r].written : r \in Runs}

\* C17: every key a run has written is under user/{uid}/extracted/{base}/ or
\* user/{uid}/chats/{base}/ of that run; delivered as an event it is routed
\* to Skip, whatever its suffix; and a run triggered by such a key has ended
\* in Skip without any stage: no download, upload, copy or cache write.
C17_OutputsAreSkipped ==
  /\ \A r \in Runs : \A k \in run[r].written :
       /\ \/ StartsWith(k, ExtractedDir(run[r].user_id, run[r].zip_name_base))
          \/ StartsWith(k, ChatsDir(run[r].user_id, run[r].zip_name_base))
       /\ Routed(k).pc = "Aborted" /\ Routed(k).reason = "Skip"
  /\ \A q \in Runs :
       run[q].file_path \in WrittenKeys =>
         /\ run[q].pc = "Aborted" /\ run[q].reason = "Skip"
         /\ NoStageRan(run[q])

\* a run was triggered by an object ending in .zip that an earlier run
\* copied under chats/, and was skipped
C17_Witness ==
  \E r, q \in Runs :
    /\ r # q
    /\ run[q].file_path \in run[r].written
    /\ StartsWith(run[q].file_path, ChatsDir(run[r].user_id, run[r].zip_name_base))
    /\ EndsWith(run[q].file_path, sDotZip)
    /\ run[q].reason = "Skip"

\* the run was routed to the pipeline and has not ended
Running(rec) == rec.pc \notin {"Idle", "Done", "Aborted"}

\* the run was routed to the pipeline
Started(rec) == rec.pc # "Idle" /\ rec.reason # "Skip"

\* C18 as stated: two runs in progress at the same time, triggered by
\* distinct eligible keys, have written no common object key and are not
\* both about to write the same cache document.
C18_Original ==
  \A r, q \in Runs :
    ( /\ r # q /\ Running(run[r]) /\ Running(run[q])
      /\ run[r].file_path # run[q].file_path ) =>
        /\ run[r].written \cap run[q].written = {}
        /\ ~( /\ run[r].pc = "CachingCompletion" /\ run[q].pc = "CachingCompletion"
              /\ SameFolder(r, q) )

\* C18: two runs, overlapping or not, triggered by eligible keys that differ
\* in the user or in the base name write under their own prefixes
\* extracted/{base}/ and chats/{base}/ only, so they have no written key in
\* common, neither enumerates an object the other wrote, and each one's
\* cache document is its own.
C18_DistinctFoldersDisjoint ==
  \A r, q \in Runs :
    ( /\ r # q /\ Started(run[r]) /\ Started(run[q])
      /\ ~SameFolder(r, q) ) =>
        /\ run[r].written \cap run[q].written = {}
        /\ \A k \in run[r].written :
             \/ StartsWith(k, ExtractedDir(run[r].user_id, run[r].zip_name_base))
             \/ StartsWith(k, ChatsDir(run[r].user_id, run[r].zip_name_base))
        /\ \A i \in 1..Len(run[r].blobs_to_copy) :
             run[r].blobs_to_copy[i] \notin run[q].written
        /\ run[r].cache_writes = 1 =>
             /\ Records(cache, run[r].user_id, run[r].zip_name_base) # {}
             /\ run[q].cache_writes = 1 => Cardinality(cache) >= 2

\* two runs for different users are in progress at the same time, each
\* having copied an object
C18_Witness ==
  \E r, q \in Runs :
    /\ r # q /\ ~SameFolder(r, q)
    /\ Running(run[r]) /\ Running(run[q])
    /\ run[r].copy_count >= 1 /\ run[q].copy_count >= 1

\* C19: whenever the cache document of (uid, base) exists, the object
\* user/{uid}/chats/{base}/_chat.txt is in the bucket; and no step removes
\* the cache document of a (uid, base).
C19_CacheImpliesMirroredMarker ==
  /\ [](\A d \in cache : (ChatsDir(d.uid, d.base) \o sChatTxt) \in DOMAIN storage)
  /\ [][ \A d \in cache : Records(cache', d.uid, d.base) # {} ]_vars

\* a cache document exists although an upload of the run that wrote it
\* raised, and a copy of another run for the same folder raised
C19_Witness ==
  \E r, q \in Runs :
    /\ r # q /\ SameFolder(r, q)
    /\ run[r].cache_writes = 1 /\ run[r].failed # {}
    /\ run[q].reason = "CopyError"
    /\ Records(cache, run[r].user_id, run[r].zip_name_base) # {}

\* the routing of lines 44-57 with the check of lines 59-63 removed
RoutedWithoutLoopGuard(k) ==
  IF ~Eligible(k)
    THEN [IdleRun EXCEPT !.pc = "Aborted", !.reason = "Skip", !.file_path = k]
    ELSE [IdleRun EXCEPT !.pc = "Downloading", !.file_path = k,
                         !.user_id = UserId(k),
                         !.zip_filename = ZipFilename(k),
                         !.zip_name_base = ZipNameBase(k),
                         !.temp_dir = TRUE]

\* C20: for every object of the bucket and every key a run was triggered
\* by, a key that passes the test of line 45 and so reaches the check of
\* lines 59-63 does not satisfy it, and the routing decision is the same
\* with that check removed.
C20_SecondCheckUnreachable ==
  \A k \in DOMAIN storage \cup {run[r].file_path : r \in {q \in Runs : run[q].pc # "Idle"}} :
    /\ Eligible(k) => ~LoopGuard(k)
    /\ Routed(k) = RoutedWithoutLoopGuard(k)

\* a run triggered by an upload reached the second check, and a run
\* triggered by an object ending in .zip under extracted/ was skipped
C20_Witness ==
  \E r, q \in Runs :
    /\ Started(run[r])
    /\ run[q].reason = "Skip"
    /\ StartsWith(run[q].file_path, ExtractedDir(run[r].user_id, run[r].zip_name_base))
    /\ EndsWith(run[q].file_path, sDotZip)

====
